---- MODULE Spec2Model ----
(***************************************************************************)
(* Model of the gitlogger log pipeline: handle_log_ingestion writes one    *)
(* immutable fragment object per message, handle_consolidation merges the  *)
(* pending fragments into master_log.json with a generation-conditioned    *)
(* write, archives the old log on rotation and retires the fragments by    *)
(* copy-then-delete.  The bucket is the only shared state.                 *)
(*                                                                         *)
(* Every store request of handle_consolidation is one atomic step, so runs *)
(* that overlap interleave between requests.                               *)
(*                                                                         *)
(* Fragment bodies are either a JSON object (with or without a timestamp)  *)
(* or text that json.loads rejects; a body that is valid JSON but not an   *)
(* object is outside the model.                                            *)
(***************************************************************************)
EXTENDS Integers, Sequences, FiniteSets, TLC

\* ------------------------------------------------------------ bounds
\* Fragment names (one per message id) are 1..NumFrags, listed in this order.
NumFrags == 2
\* How many times the fragment object of one message may be created (a
\* redelivery that arrives after the fragment was retired creates it again).
MaxCreations == 2
\* Serialized size of one log entry, in KiB.
EntryKB == 100

\* ------------------------------------------------------------ constants
MAX_LOG_SIZE_KB == 200
\* if_generation_match=0 / generation = 0: "no live object".
NoGeneration == 0
\* Sort key of an entry without "timestamp": "1970-01-01T00:00:00Z".
EpochStart == 0
\* Body of a fragment: an entry without "timestamp".
NoTimestamp == -1
\* Body of a fragment: text that json.loads rejects.
BadJson == -2
\* Listing position of the "fragments/" directory marker (name ends with '/').
DirMarker == 0

Names == 1..NumFrags
\* Entry timestamps: an earlier and a later one.
Timestamps == {1, 2}
Bodies == {BadJson, NoTimestamp} \cup Timestamps
Runs == {"A", "B"}
Terminal == {"returned", "raised"}
Inactive == {"idle"} \cup Terminal

VARIABLES
    bucket,          \* gcs_utils.bucket: "ok", or "None" when initialization failed
    master,          \* master_log.json: [gen, kind, entries]
    body,            \* content of the fragment object of each name (immutable)
    frags,           \* frags[n]: fragments/<n> exists
    dir_marker,      \* the object "fragments/" exists
    processed,       \* names n for which processed/<n> exists
    archives,        \* contents of the archive/master_log_<time>.json objects
    created,         \* created[n]: how many times fragments/<n> was created
    cleanup_failed,  \* history: some copy or delete request has failed
    delete_failed,   \* history: originals still pending because, after all the
                     \* copies of a run, its delete request for them failed
    ack,             \* the response to the latest delivery (SpecIngestion)
    pc,              \* position of each run of handle_consolidation
    fragment_blobs,  \* locals of handle_consolidation, per run
    i,
    all_logs,
    generation,
    new_entries,
    valid_fragment_blobs,
    logs_to_archive,
    logs_for_main_file,
    result,          \* what the invocation returned or raised
    ops,             \* history: store mutations of the current run, in order
    faults           \* history: store failures injected into the current run

store == <<bucket, master, body, frags, dir_marker, processed, archives>>
hist == <<created, cleanup_failed, delete_failed, ack>>
locals == <<fragment_blobs, i, all_logs, generation, new_entries,
            valid_fragment_blobs, logs_to_archive, logs_for_main_file>>
vars == <<bucket, master, body, frags, dir_marker, processed, archives,
          created, cleanup_failed, delete_failed, ack, pc, fragment_blobs, i,
          all_logs, generation, new_entries, valid_fragment_blobs,
          logs_to_archive, logs_for_main_file, result, ops, faults>>

\* ------------------------------------------------------------ helpers
Range(s) == {s[k] : k \in 1..Len(s)}

RECURSIVE SetToSeq(_)
\* The names of S in listing (name) order.
SetToSeq(S) ==
    IF S = {} THEN <<>>
    ELSE LET m == CHOOSE x \in S : \A y \in S : x <= y
         IN  <<m>> \o SetToSeq(S \ {m})

\* How many entries of log come from fragment n.
Count(n, log) == Cardinality({k \in 1..Len(log) : log[k].id = n})

\* The LogEntry decoded from fragment n.
Entry(n) == [id |-> n, ts |-> body[n]]

NoMaster == [gen |-> NoGeneration, kind |-> "absent", entries |-> <<>>]


\* ------------------------------------------------------------ pure steps of handle_consolidation
\* list(bucket.list_blobs(prefix=FRAGMENTS_PREFIX)): the directory marker sorts first.
Listing ==
    (IF dir_marker THEN <<DirMarker>> ELSE <<>>) \o SetToSeq({n \in Names : frags[n]})

\* fragment.name.endswith('/')
IsDirectory(name) == name = DirMarker

\* Faulty variant of Decodes: the except clause of the loop is left out.
Decodes_any(n) == frags[n]

\* fragment.download_as_text() and json.loads both succeed.
Decodes(n) == frags[n] /\ body[n] # BadJson

\* Faulty variant of ReadGeneration: the generation is taken after the parse,
\* so an object that does not parse leaves it 0.
ReadGeneration_after_parse(m) == IF m.kind = "list" THEN m.gen ELSE NoGeneration

\* generation = master_blob.generation, right after the download and before
\* json.loads; NotFound leaves it 0.
ReadGeneration(m) == IF m.kind = "absent" THEN NoGeneration ELSE m.gen

\* What the read of the master log leaves in all_logs.
ParsedLogs(m) == IF m.kind = "list" THEN m.entries ELSE <<>>

\* lambda x: x.get("timestamp", "1970-01-01T00:00:00Z")
TimestampKey(e) == IF e.ts = NoTimestamp THEN EpochStart ELSE e.ts

\* e placed after every element of the sorted s whose key is <= its own.
InsertByKey(e, s) ==
    LET before == {k \in 1..Len(s) : TimestampKey(s[k]) <= TimestampKey(e)}
        n == Cardinality(before)
    IN  SubSeq(s, 1, n) \o <<e>> \o SubSeq(s, n + 1, Len(s))

RECURSIVE SortPrefix(_, _)
SortPrefix(s, k) == IF k = 0 THEN <<>> ELSE InsertByKey(s[k], SortPrefix(s, k - 1))

\* Faulty variant of SortByTimestamp: the sort is left out.
SortByTimestamp_unsorted(s) == s

\* new_entries.sort(key=...): stable, ascending.
SortByTimestamp(s) == SortPrefix(s, Len(s))

\* len(json.dumps(all_logs).encode('utf-8')): "[" e ", " e ... "]".
SerializedBytes(log) ==
    IF Len(log) = 0 THEN 2
    ELSE 2 + Len(log) * EntryKB * 1024 + 2 * (Len(log) - 1)

\* (len(...) / 1024) > MAX_LOG_SIZE_KB, a float division.
ShouldRotate(log) == SerializedBytes(log) > MAX_LOG_SIZE_KB * 1024

\* Variant of LogsForMainFile: an entry of a fragment whose entry the old log
\* holds is left out.
LogsForMainFile_dedup(rotate, old, new) ==
    IF rotate THEN new
    ELSE old \o SelectSeq(new, LAMBDA e : \A k \in 1..Len(old) : old[k].id # e.id)

\* Faulty variant of LogsForMainFile: the old entries are dropped when appending.
LogsForMainFile_dropold(rotate, old, new) == new

\* logs_for_main_file of either branch of the rotation decision.
LogsForMainFile(rotate, old, new) == IF rotate THEN new ELSE old \o new

\* generation after the rotation decision.
WriteGeneration(rotate, gen) == IF rotate THEN NoGeneration ELSE gen

\* Faulty variant of GenerationMatches: the write is unconditional.
GenerationMatches_always(gen) == TRUE

\* if_generation_match=gen: 0 asks for no live object, g for generation g.
GenerationMatches(gen) == master.gen = gen

\* Faulty variant of NoNewEntries: the early return is left out.
NoNewEntries_never(entries) == FALSE

\* not new_entries
NoNewEntries(entries) == entries = <<>>

\* Faulty variant of BatchDeleted: everything under fragments/ is deleted.
BatchDeleted_all(valid, failed) == {n \in Names : n \notin failed /\ frags[n]}

\* Faulty variant of BatchDeleted: the delete requests are never sent.
BatchDeleted_none(valid, failed) == {}

\* The originals a batch of delete requests removes; failed: the requests the
\* store refuses. A request for an object that is gone is a 404.
BatchDeleted(valid, failed) == {n \in Range(valid) : n \notin failed /\ frags[n]}

\* Object names: a prefix and the rest, "<timestamp>_<message id>.json".
FRAGMENTS_PREFIX == "fragments/"
PROCESSED_FRAGMENTS_PREFIX == "processed/"
BlobName(prefix, rest) == [prefix |-> prefix, rest |-> rest]

\* f"{PROCESSED_FRAGMENTS_PREFIX}{blob.name[len(FRAGMENTS_PREFIX):]}"
ProcessedName(name) == BlobName(PROCESSED_FRAGMENTS_PREFIX, name.rest)

NoResult == [kind |-> "none", code |-> 0, count |-> 0]
Returned(kind, code, count) == [kind |-> kind, code |-> code, count |-> count]
\* The exception leaves handle_consolidation: no status is returned.
Raised(kind) == [kind |-> kind, code |-> 0, count |-> 0]
Op(op, n) == [op |-> op, name |-> n]
\* The response of handle_log_ingestion to the delivery of message n.
Ack(n, kind, code) == [name |-> n, kind |-> kind, code |-> code]
NoAck == Ack(0, "none", 0)

\* ------------------------------------------------------------ initial state
\* The bucket before the first invocation: no master log, or one that an
\* outside writer left unparseable or not a list; the undecodable fragments are
\* there from the start (ingestion never writes one), the others arrive later.
Init ==
    /\ bucket \in {"ok", "None"}
    /\ master \in {NoMaster,
                   [gen |-> 1, kind |-> "unparseable", entries |-> <<>>],
                   [gen |-> 1, kind |-> "not_a_list", entries |-> <<>>]}
    /\ body \in [Names -> Bodies]
    /\ frags = [n \in Names |-> body[n] = BadJson]
    /\ dir_marker \in BOOLEAN
    /\ processed = {}
    /\ archives = <<>>
    /\ created = [n \in Names |-> 0]
    /\ cleanup_failed = FALSE
    /\ delete_failed = {}
    /\ ack = NoAck
    /\ pc = [r \in Runs |-> "idle"]
    /\ fragment_blobs = [r \in Runs |-> <<>>]
    /\ i = [r \in Runs |-> 0]
    /\ all_logs = [r \in Runs |-> <<>>]
    /\ generation = [r \in Runs |-> NoGeneration]
    /\ new_entries = [r \in Runs |-> <<>>]
    /\ valid_fragment_blobs = [r \in Runs |-> <<>>]
    /\ logs_to_archive = [r \in Runs |-> <<>>]
    /\ logs_for_main_file = [r \in Runs |-> <<>>]
    /\ result = [r \in Runs |-> NoResult]
    /\ ops = [r \in Runs |-> <<>>]
    /\ faults = [r \in Runs |-> {}]

\* ------------------------------------------------------------ ingestion
\* Faulty variant of FragmentExists: the upload is unconditional.
FragmentExists_never(n) == FALSE

\* if_generation_match=0 on fragments/<n> meets a live object.
FragmentExists(n) == frags[n]

\* What handle_log_ingestion returns for a delivery of the message of fragment
\* n; fails: the upload raises something other than PreconditionFailed.
IngestionResponse(n, fails) ==
    IF bucket = "None" THEN Ack(n, "misconfigured", 500)
    ELSE IF fails THEN Ack(n, "error", 500)
    ELSE IF FragmentExists(n) THEN Ack(n, "duplicate", 200)
    ELSE Ack(n, "written", 200)

\* The store request of handle_log_ingestion: the fragment is created with
\* if_generation_match=0, so a delivery that finds it changes nothing. A
\* message without "timestamp" is named after the delivery time; only its
\* first delivery is modelled.
UploadFragment(n, fails) ==
    /\ body[n] # BadJson
    /\ created[n] < (IF body[n] = NoTimestamp THEN 1 ELSE MaxCreations)
    /\ IF IngestionResponse(n, fails).kind = "written"
       THEN /\ frags' = [frags EXCEPT ![n] = TRUE]
            /\ created' = [created EXCEPT ![n] = @ + 1]
       ELSE UNCHANGED <<frags, created>>
    /\ UNCHANGED <<bucket, master, body, dir_marker, processed, archives,
                   cleanup_failed, delete_failed, pc, locals, result, ops,
                   faults>>

\* A delivery whose response nobody looks at.
handle_log_ingestion(n) ==
    /\ bucket = "ok"
    /\ UploadFragment(n, FALSE)
    /\ UNCHANGED ack

\* A delivery and the response it gets.
Delivery(n, fails) ==
    /\ UploadFragment(n, fails)
    /\ ack' = IngestionResponse(n, fails)

\* ------------------------------------------------------------ handle_consolidation
\* The invocation ends: a status is returned, or an exception propagates, and
\* the locals are gone.
Finish(r, how, res) ==
    /\ pc' = [pc EXCEPT ![r] = how]
    /\ result' = [result EXCEPT ![r] = res]
    /\ fragment_blobs' = [fragment_blobs EXCEPT ![r] = <<>>]
    /\ i' = [i EXCEPT ![r] = 0]
    /\ all_logs' = [all_logs EXCEPT ![r] = <<>>]
    /\ generation' = [generation EXCEPT ![r] = NoGeneration]
    /\ new_entries' = [new_entries EXCEPT ![r] = <<>>]
    /\ valid_fragment_blobs' = [valid_fragment_blobs EXCEPT ![r] = <<>>]
    /\ logs_to_archive' = [logs_to_archive EXCEPT ![r] = <<>>]
    /\ logs_for_main_file' = [logs_for_main_file EXCEPT ![r] = <<>>]

\* The run goes on to the step at.
Goto(r, at) ==
    /\ pc' = [pc EXCEPT ![r] = at]
    /\ UNCHANGED result

\* Entry of handle_consolidation, up to the check of the store handle.
Begin(r) ==
    /\ pc[r] \in Inactive
    /\ ops' = [ops EXCEPT ![r] = <<>>]
    /\ faults' = [faults EXCEPT ![r] = {}]
    /\ IF bucket = "None"
       THEN /\ pc' = [pc EXCEPT ![r] = "returned"]
            /\ result' = [result EXCEPT ![r] = Returned("misconfigured", 204, 0)]
       ELSE /\ pc' = [pc EXCEPT ![r] = "list"]
            /\ result' = [result EXCEPT ![r] = NoResult]
    /\ UNCHANGED <<store, hist, locals>>

\* 1. list the fragments; none: return.
ListFragments(r) ==
    /\ pc[r] = "list"
    /\ IF Listing = <<>>
       THEN Finish(r, "returned", Returned("no_fragments", 200, 0))
       ELSE /\ fragment_blobs' = [fragment_blobs EXCEPT ![r] = Listing]
            /\ Goto(r, "read_master")
            /\ UNCHANGED <<i, all_logs, generation, new_entries,
                           valid_fragment_blobs, logs_to_archive,
                           logs_for_main_file>>
    /\ UNCHANGED <<store, hist, ops, faults>>

\* list_blobs raises: nothing catches it.
ListFragmentsFails(r) ==
    /\ pc[r] = "list"
    /\ faults' = [faults EXCEPT ![r] = @ \cup {Op("list", 0)}]
    /\ Finish(r, "raised", Raised("raise_list"))
    /\ UNCHANGED <<store, hist, ops>>

\* 2. read the master log and its generation (the download sets
\* master_blob.generation); NotFound leaves generation 0, a JSONDecodeError
\* and a non-list keep the generation read, and all three leave all_logs empty.
ReadMasterLog(r) ==
    /\ pc[r] = "read_master"
    /\ all_logs' = [all_logs EXCEPT ![r] = ParsedLogs(master)]
    /\ generation' = [generation EXCEPT ![r] = ReadGeneration(master)]
    /\ i' = [i EXCEPT ![r] = 1]
    /\ Goto(r, "read_frags")
    /\ UNCHANGED <<store, hist, fragment_blobs, new_entries, valid_fragment_blobs,
                   logs_to_archive, logs_for_main_file, ops, faults>>

\* Faulty variant of ReadMasterLogFails: the failed read is taken for an empty
\* log like the others.
ReadMasterLogFails_as_empty(r) ==
    /\ pc[r] = "read_master"
    /\ faults' = [faults EXCEPT ![r] = @ \cup {Op("read_master", 0)}]
    /\ all_logs' = [all_logs EXCEPT ![r] = <<>>]
    /\ generation' = [generation EXCEPT ![r] = NoGeneration]
    /\ i' = [i EXCEPT ![r] = 1]
    /\ Goto(r, "read_frags")
    /\ UNCHANGED <<store, hist, fragment_blobs, new_entries, valid_fragment_blobs,
                   logs_to_archive, logs_for_main_file, ops>>

\* The download raises something else: re-raised.
ReadMasterLogFails(r) ==
    /\ pc[r] = "read_master"
    /\ faults' = [faults EXCEPT ![r] = @ \cup {Op("read_master", 0)}]
    /\ Finish(r, "raised", Raised("raise_read"))
    /\ UNCHANGED <<store, hist, ops>>

\* 3. one round of the loop over fragment_blobs.
ReadFragment(r) ==
    /\ pc[r] = "read_frags"
    /\ i[r] <= Len(fragment_blobs[r])
    /\ LET f == fragment_blobs[r][i[r]]
       IN  IF ~IsDirectory(f) /\ Decodes(f)
           THEN /\ new_entries' = [new_entries EXCEPT ![r] = Append(@, Entry(f))]
                /\ valid_fragment_blobs' =
                       [valid_fragment_blobs EXCEPT ![r] = Append(@, f)]
           ELSE UNCHANGED <<new_entries, valid_fragment_blobs>>
    /\ i' = [i EXCEPT ![r] = @ + 1]
    /\ UNCHANGED <<store, hist, pc, fragment_blobs, all_logs, generation,
                   logs_to_archive, logs_for_main_file, result, ops, faults>>

\* The download of a fragment raises: the fragment is skipped.
ReadFragmentFails(r) ==
    /\ pc[r] = "read_frags"
    /\ i[r] <= Len(fragment_blobs[r])
    /\ ~IsDirectory(fragment_blobs[r][i[r]])
    /\ faults' = [faults EXCEPT
                      ![r] = @ \cup {Op("read_fragment", fragment_blobs[r][i[r]])}]
    /\ i' = [i EXCEPT ![r] = @ + 1]
    /\ UNCHANGED <<store, hist, pc, fragment_blobs, all_logs, generation,
                   new_entries, valid_fragment_blobs, logs_to_archive,
                   logs_for_main_file, result, ops>>

\* After the loop: return when nothing decoded, else sort and 4. decide on
\* rotation.
MergeAndDecide(r) ==
    /\ pc[r] = "read_frags"
    /\ i[r] > Len(fragment_blobs[r])
    /\ IF NoNewEntries(new_entries[r])
       THEN Finish(r, "returned", Returned("no_valid", 200, 0))
       ELSE LET sorted == SortByTimestamp(new_entries[r])
                rotate == ShouldRotate(all_logs[r])
            IN  /\ new_entries' = [new_entries EXCEPT ![r] = sorted]
                /\ logs_to_archive' =
                       [logs_to_archive EXCEPT
                            ![r] = IF rotate THEN all_logs[r] ELSE <<>>]
                /\ logs_for_main_file' =
                       [logs_for_main_file EXCEPT
                            ![r] = LogsForMainFile(rotate, all_logs[r], sorted)]
                /\ generation' =
                       [generation EXCEPT ![r] = WriteGeneration(rotate, @)]
                /\ Goto(r, "write")
                /\ UNCHANGED <<fragment_blobs, i, all_logs, valid_fragment_blobs>>
    /\ UNCHANGED <<store, hist, ops, faults>>

\* Faulty variant of RejectWrite: the conflict is logged and not re-raised.
RejectWrite_swallowed(r) ==
    /\ Goto(r, "archive")
    /\ UNCHANGED locals

\* except PreconditionFailed: the conflict is logged and re-raised.
RejectWrite(r) == Finish(r, "raised", Raised("raise_conflict"))

\* 5. the conditional write of the master log; PreconditionFailed is re-raised.
WriteMasterLog(r) ==
    /\ pc[r] = "write"
    /\ IF GenerationMatches(generation[r])
       THEN /\ master' = [gen |-> master.gen + 1, kind |-> "list",
                          entries |-> logs_for_main_file[r]]
            /\ ops' = [ops EXCEPT ![r] = Append(@, Op("write", 0))]
            /\ Goto(r, "archive")
            /\ UNCHANGED locals
       ELSE /\ RejectWrite(r)
            /\ UNCHANGED <<master, ops>>
    /\ UNCHANGED <<bucket, body, frags, dir_marker, processed, archives, hist,
                   faults>>

\* The upload raises something else: re-raised, nothing written.
WriteMasterLogFails(r) ==
    /\ pc[r] = "write"
    /\ faults' = [faults EXCEPT ![r] = @ \cup {Op("write", 0)}]
    /\ Finish(r, "raised", Raised("raise_write"))
    /\ UNCHANGED <<store, hist, ops>>

\* 6. upload the archive when logs_to_archive is non-empty; a failed upload
\* (ok = FALSE) is logged and the run goes on.
ArchiveOldLog(r, ok) ==
    /\ pc[r] = "archive"
    /\ ok \/ logs_to_archive[r] # <<>>
    /\ IF logs_to_archive[r] # <<>>
       THEN IF ok
            THEN /\ archives' = Append(archives, logs_to_archive[r])
                 /\ ops' = [ops EXCEPT ![r] = Append(@, Op("archive", 0))]
                 /\ UNCHANGED faults
            ELSE /\ faults' = [faults EXCEPT ![r] = @ \cup {Op("archive", 0)}]
                 /\ UNCHANGED <<archives, ops>>
       ELSE UNCHANGED <<archives, ops, faults>>
    /\ i' = [i EXCEPT ![r] = 1]
    /\ Goto(r, "copy")
    /\ UNCHANGED <<bucket, master, body, frags, dir_marker, processed, hist,
                   fragment_blobs, all_logs, generation, new_entries,
                   valid_fragment_blobs, logs_to_archive, logs_for_main_file>>

\* Faulty variant of AbandonCleanup: the failed copy is passed over and the
\* loop goes on.
AbandonCleanup_goes_on(r) ==
    /\ i' = [i EXCEPT ![r] = @ + 1]
    /\ UNCHANGED <<pc, result, fragment_blobs, all_logs, generation,
                   new_entries, valid_fragment_blobs, logs_to_archive,
                   logs_for_main_file>>

\* except Exception in the cleanup: a warning, processed_count still 0, and
\* the final return.
AbandonCleanup(r) == Finish(r, "returned", Returned("complete", 200, 0))

\* 7a. copy one fragment to its processed name; a source that is gone raises
\* NotFound, which ends the cleanup.
CopyFragment(r) ==
    /\ pc[r] = "copy"
    /\ i[r] <= Len(valid_fragment_blobs[r])
    /\ LET f == valid_fragment_blobs[r][i[r]]
           new_name == ProcessedName(BlobName(FRAGMENTS_PREFIX, f))
       IN  IF frags[f]
           THEN /\ processed' = processed \cup {new_name.rest}
                /\ ops' = [ops EXCEPT ![r] = Append(@, Op("copy", f))]
                /\ i' = [i EXCEPT ![r] = @ + 1]
                /\ UNCHANGED <<pc, result, cleanup_failed, fragment_blobs,
                               all_logs, generation, new_entries,
                               valid_fragment_blobs, logs_to_archive,
                               logs_for_main_file>>
           ELSE /\ cleanup_failed' = TRUE
                /\ AbandonCleanup(r)
                /\ UNCHANGED <<processed, ops>>
    /\ UNCHANGED <<bucket, master, body, frags, dir_marker, archives, created,
                   delete_failed, ack, faults>>

\* copy_blob raises: the cleanup is abandoned before any delete.
CopyFragmentFails(r) ==
    /\ pc[r] = "copy"
    /\ i[r] <= Len(valid_fragment_blobs[r])
    /\ cleanup_failed' = TRUE
    /\ faults' = [faults EXCEPT ![r] = @ \cup {Op("copy", 0)}]
    /\ AbandonCleanup(r)
    /\ UNCHANGED <<store, created, delete_failed, ack, ops>>

\* 7b. after the last copy: one batch of delete requests, of which the store
\* refuses those in failed. Any refused or 404 request raises when the batch
\* is left, and processed_count stays 0.
DeleteOriginals(r, failed) ==
    /\ pc[r] = "copy"
    /\ i[r] > Len(valid_fragment_blobs[r])
    /\ LET valid == valid_fragment_blobs[r]
           deleted == BatchDeleted(valid, failed)
           gone == {n \in Range(valid) : ~frags[n]}
       IN  /\ frags' = [n \in Names |-> frags[n] /\ n \notin deleted]
           /\ ops' = [ops EXCEPT ![r] =
                         @ \o [k \in 1..Cardinality(deleted) |->
                                  Op("delete", SetToSeq(deleted)[k])]]
           /\ cleanup_failed' = (cleanup_failed \/ failed # {} \/ gone # {})
           /\ delete_failed' =
                  (delete_failed \ deleted) \cup {n \in failed : frags[n]}
           /\ Finish(r, "returned",
                     Returned("complete", 200,
                              IF failed = {} /\ gone = {} THEN Len(valid) ELSE 0))
    /\ UNCHANGED <<bucket, master, body, dir_marker, processed, archives,
                   created, ack>>

BatchDelete(r) ==
    /\ DeleteOriginals(r, {})
    /\ UNCHANGED faults

BatchDeleteFails(r) ==
    /\ \E failed \in SUBSET Range(valid_fragment_blobs[r]) :
           /\ failed # {}
           /\ DeleteOriginals(r, failed)
    /\ faults' = [faults EXCEPT ![r] = @ \cup {Op("delete", 0)}]

\* ------------------------------------------------------------ specifications
\* The steps of a run that the store answers.
Step(r) ==
    \/ ListFragments(r)
    \/ ReadMasterLog(r)
    \/ ReadFragment(r)
    \/ MergeAndDecide(r)
    \/ WriteMasterLog(r)
    \/ ArchiveOldLog(r, TRUE)
    \/ CopyFragment(r)
    \/ BatchDelete(r)

\* The steps in which a store request fails.
Fault(r) ==
    \/ ListFragmentsFails(r)
    \/ ReadMasterLogFails(r)
    \/ ReadFragmentFails(r)
    \/ WriteMasterLogFails(r)
    \/ ArchiveOldLog(r, FALSE)
    \/ CopyFragmentFails(r)
    \/ BatchDeleteFails(r)

\* max_instances=1: one run at a time, any store request may fail.
Next ==
    \/ \E n \in Names : handle_log_ingestion(n)
    \/ Begin("A")
    \/ Step("A")
    \/ Fault("A")

Spec == Init /\ [][Next]_vars

\* A second invocation that starts while run A is under way.
BeginOverlapping(r) ==
    /\ r # "A"
    /\ pc["A"] \notin Inactive
    /\ Begin(r)

\* Runs may overlap; the store does not fail.
NextOverlap ==
    \/ \E n \in Names : handle_log_ingestion(n)
    \/ Begin("A")
    \/ \E r \in Runs : BeginOverlapping(r)
    \/ \E r \in Runs : Step(r)

SpecOverlap == Init /\ [][NextOverlap]_vars

\* One run at a time on a store that does not fail. The trigger fires again
\* and again, so an invocation that can begin does, and one that has begun
\* runs to its end.
NextProgress ==
    \/ \E n \in Names : handle_log_ingestion(n)
    \/ Begin("A")
    \/ Step("A")

SpecProgress ==
    /\ Init
    /\ [][NextProgress]_vars
    /\ WF_vars(Begin("A"))
    /\ WF_vars(Step("A"))

\* Deliveries, first and repeated, failing or not, with their responses,
\* between and during the steps of one run at a time; the store does not fail
\* under the run.
NextIngestion ==
    \/ \E n \in Names : \E fails \in BOOLEAN : Delivery(n, fails)
    \/ Begin("A")
    \/ Step("A")

SpecIngestion == Init /\ [][NextIngestion]_vars

\* ------------------------------------------------------------ properties
\* The entries a reader finds in the master log m.
EntriesOf(m) == IF m.kind = "list" THEN m.entries ELSE <<>>

\* s is in non-decreasing timestamp order, a missing timestamp counting as the
\* epoch start.
IsSortedByTimestamp(s) ==
    \A k \in 1..(Len(s) - 1) : TimestampKey(s[k]) <= TimestampKey(s[k + 1])

\* s holds the entry of every fragment of S once, as the fragment has it, and
\* nothing else.
HoldsExactly(s, S) ==
    /\ Len(s) = Cardinality(S)
    /\ \A n \in S : \E k \in 1..Len(s) : s[k] = Entry(n)

\* The fragments fault records of kind op name.
Faulted(r, op) == {f.name : f \in {g \in faults[r] : g.op = op}}

\* The fragments run r listed that decode and whose download did not fail.
DecodedBy(r) ==
    {n \in Range(fragment_blobs[r]) \cap Names :
        body[n] # BadJson /\ n \notin Faulted(r, "read_fragment")}

\* C1: a write of the master log in the append case (the prior log is not
\* over the threshold) leaves the prior entries unchanged and in order,
\* followed by exactly the entries this run decoded, in ascending timestamp
\* order.
NoLossOnAppendStep ==
    \A r \in Runs :
        (/\ pc[r] = "write"
         /\ pc'[r] = "archive"
         /\ SerializedBytes(EntriesOf(master)) <= MAX_LOG_SIZE_KB * 1024)
        => LET old == EntriesOf(master)
               now == master'.entries
               added == SubSeq(now, Len(old) + 1, Len(now))
           IN  /\ master'.kind = "list"
               /\ Len(now) >= Len(old)
               /\ SubSeq(now, 1, Len(old)) = old
               /\ HoldsExactly(added, DecodedBy(r))
               /\ IsSortedByTimestamp(added)

NoLossOnAppend == [][NoLossOnAppendStep]_vars

\* C1 witness: an append onto a non-empty log of two entries that were listed
\* in the other order.
NoLossOnAppendWitness ==
    \E r \in Runs :
        /\ pc[r] = "archive"
        /\ logs_to_archive[r] = <<>>
        /\ all_logs[r] # <<>>
        /\ Len(valid_fragment_blobs[r]) = 2
        /\ new_entries[r][1] = Entry(valid_fragment_blobs[r][2])
        /\ master.entries = all_logs[r] \o new_entries[r]

\* The step in which run r ends.
Ends(r) == pc[r] \notin Inactive /\ pc'[r] \in Terminal

\* C2: a run without store failures that read a master log over the threshold
\* and decoded a fragment ends with the master log holding exactly the sorted
\* new entries and with an archive object holding the prior entries.
RotationCorrectStep ==
    \A r \in Runs :
        (/\ Ends(r)
         /\ faults'[r] = {}
         /\ pc[r] \in {"write", "copy"}
         /\ ShouldRotate(all_logs[r]))
        => /\ master'.entries = new_entries[r]
           /\ \E k \in 1..Len(archives') : archives'[k] = all_logs[r]

RotationCorrect == [][RotationCorrectStep]_vars

\* C3 (the write step): in the append case a write whose generation is no
\* longer the master log's is rejected; the run raises and the store is as it
\* was.
StaleWriteRejectedStep ==
    \A r \in Runs :
        (/\ pc[r] = "write"
         /\ pc'[r] # "write"
         /\ logs_to_archive[r] = <<>>
         /\ master.gen # generation[r])
        => /\ pc'[r] = "raised"
           /\ result'[r].kind = "raise_conflict"
           /\ ops'[r] = <<>>
           /\ master' = master
           /\ archives' = archives
           /\ processed' = processed
           /\ frags' = frags

\* C3 (the losing run): a run that ended on a write conflict made no store
\* mutation, and a run makes none before its write succeeds.
LosingRunAppliesNothing ==
    \A r \in Runs :
        (result[r].kind = "raise_conflict" \/ pc[r] \in {"list", "read_master",
                                                         "read_frags", "write"})
        => ops[r] = <<>>

\* C3 (the consequence): two runs that both wrote the master log in the
\* append case did not read the same generation.
OneWriterPerGeneration ==
    \A r, q \in Runs :
        (/\ r # q
         /\ pc[r] \in {"archive", "copy"}
         /\ pc[q] \in {"archive", "copy"}
         /\ logs_to_archive[r] = <<>>
         /\ logs_to_archive[q] = <<>>)
        => generation[r] # generation[q]

\* C3: conditional write safety in the append case.
ConditionalWriteSafety ==
    /\ [](LosingRunAppliesNothing /\ OneWriterPerGeneration)
    /\ [][StaleWriteRejectedStep]_vars

\* C3 witness: a run lost the race on a log that is still under the threshold
\* (so its write was an append), while the other run, which wrote, is at work.
ConditionalWriteSafetyWitness ==
    \E r, q \in Runs :
        /\ result[r].kind = "raise_conflict"
        /\ pc[q] \in {"archive", "copy"}
        /\ master.entries # <<>>
        /\ ~ShouldRotate(master.entries)

\* C4 as claimed: no fragment object is merged twice, whatever fails.
ExactlyOnceMerge ==
    \A n \in Names : Count(n, EntriesOf(master)) <= created[n]

\* C4 as amended: while no copy and no delete request has failed, no fragment
\* object has been merged twice.
ExactlyOnceMergeUnlessCleanupFails ==
    ~cleanup_failed => ExactlyOnceMerge

\* C4 witness: two runs have merged and retired one fragment each.
ExactlyOnceMergeWitness ==
    /\ ~cleanup_failed
    /\ master.gen >= 2
    /\ Len(EntriesOf(master)) = 2
    /\ \A n \in Names : ~frags[n] /\ n \in processed
    /\ pc["A"] = "returned"

\* An entry of fragment n is in log, as the fragment has it.
Holds(log, n) == \E k \in 1..Len(log) : log[k] = Entry(n)

\* C5: the entry of every decodable fragment that ever existed is in a pending
\* fragment, in the master log or in an archive object, and every entry of the
\* master log is the entry of a fragment, unchanged.
NeverLoseData ==
    /\ \A n \in Names :
           created[n] > 0
           => \/ frags[n]
              \/ Holds(EntriesOf(master), n)
              \/ \E k \in 1..Len(archives) : Holds(archives[k], n)
    /\ \A k \in 1..Len(EntriesOf(master)) :
           /\ master.entries[k].id \in Names
           /\ master.entries[k] = Entry(master.entries[k].id)

\* C5 witness: after a failed cleanup, a fragment is gone and its entry is in
\* the master log, next to the entries an earlier run wrote.
NeverLoseDataWitness ==
    /\ cleanup_failed
    /\ master.gen >= 2
    /\ \E n \in Names : created[n] > 0 /\ ~frags[n] /\ Holds(EntriesOf(master), n)
    /\ \E n \in Names : created[n] > 0 /\ frags[n]

\* Every decodable fragment carries a timestamp, and no two the same.
DistinctTimestamps ==
    \A n, m \in Names :
        (body[n] # BadJson /\ body[m] # BadJson)
        => body[n] \in Timestamps /\ (n # m => body[n] # body[m])

\* C6: with distinct timestamps, each fragment created once and no cleanup
\* failure, the master log is in non-decreasing timestamp order.
OrderedMasterLog ==
    (/\ DistinctTimestamps
     /\ ~cleanup_failed
     /\ \A n \in Names : created[n] <= 1)
    => IsSortedByTimestamp(EntriesOf(master))

\* C7: a run without store failures leaves no original pending that an earlier
\* run copied and then failed to delete.
RetirementCompletesStep ==
    \A r \in Runs :
        (Ends(r) /\ faults'[r] = {} /\ delete_failed # {})
        => \A n \in delete_failed : ~frags'[n]

RetirementCompletes == [][RetirementCompletesStep]_vars

\* The names of the requests of kind op that run r has made.
Did(r, op) == {ops[r][k].name : k \in {j \in 1..Len(ops[r]) : ops[r][j].op = op}}

\* The fragments run r listed whose download or decoding failed.
Undecoded(r) ==
    Faulted(r, "read_fragment")
        \cup {n \in Range(fragment_blobs[r]) \cap Names : body[n] = BadJson}

\* C8 (the skipped fragments): an undecodable fragment is never merged, copied
\* or deleted, and a fragment whose download failed in a run is not merged,
\* copied or deleted by that run.
SkippedNotProcessed ==
    /\ \A n \in Names :
           body[n] = BadJson
           => frags[n] /\ n \notin processed /\ Count(n, EntriesOf(master)) = 0
    /\ \A r \in Runs : \A n \in Faulted(r, "read_fragment") :
           /\ n \notin Range(valid_fragment_blobs[r])
           /\ n \notin Did(r, "copy") \cup Did(r, "delete")
           /\ Count(n, new_entries[r]) = 0
           /\ Count(n, logs_for_main_file[r]) <= Count(n, all_logs[r])

\* C8 (the others): what a run merges and retires is exactly what it decoded.
DecodedAllProcessed ==
    \A r \in Runs :
        pc[r] \in {"write", "archive", "copy"}
        => /\ Range(valid_fragment_blobs[r]) = DecodedBy(r)
           /\ HoldsExactly(new_entries[r], DecodedBy(r))

\* C8 (the run goes on): the loop over the fragments ends the run only when
\* nothing decoded, and then with a returned status; a run that reports
\* processed fragments has merged, copied and deleted everything it decoded.
DecodeFailureNeverAbortsStep ==
    \A r \in Runs :
        /\ (pc[r] = "read_frags" /\ pc'[r] # "read_frags" /\ Undecoded(r) # {})
           => IF DecodedBy(r) = {}
              THEN pc'[r] = "returned" /\ result'[r].kind = "no_valid"
              ELSE pc'[r] = "write"
        /\ (Ends(r) /\ result'[r].kind = "complete" /\ result'[r].count > 0)
           => /\ result'[r].count = Cardinality(DecodedBy(r))
              /\ \A n \in DecodedBy(r) :
                     Holds(EntriesOf(master'), n) /\ n \in processed' /\ ~frags'[n]

\* C8: malformed fragment tolerance.
MalformedFragmentTolerance ==
    /\ [](SkippedNotProcessed /\ DecodedAllProcessed)
    /\ [][DecodeFailureNeverAbortsStep]_vars

\* C8 witness: a run retired a fragment while an undecodable one stayed.
MalformedFragmentToleranceWitness ==
    /\ result["A"].kind = "complete"
    /\ result["A"].count = 1
    /\ \E n \in Names : body[n] = BadJson /\ frags[n] /\ n \notin processed
    /\ \E n \in Names : body[n] # BadJson /\ ~frags[n] /\ n \in processed

\* C9: an invocation ends in a propagated failure exactly when the master log
\* could not be read or could not be written; any other store failure ends in
\* a returned status.
FailurePropagation ==
    \A r \in Runs :
        pc[r] \in Terminal
        => /\ result[r].kind # "none"
           /\ pc[r] = "raised"
              <=> result[r].kind \in {"raise_read", "raise_conflict", "raise_write"}
           /\ (pc[r] = "returned" => result[r].code \in {200, 204})

\* C10 (the outcome): a run that lists nothing, or decodes nothing of what it
\* listed, returns the no-op status.
NoOpOutcomeStep ==
    \A r \in Runs :
        /\ (pc[r] = "list" /\ pc'[r] # "list" /\ Listing = <<>> /\ faults'[r] = {})
           => /\ pc'[r] = "returned"
              /\ result'[r] = Returned("no_fragments", 200, 0)
        /\ (pc[r] = "read_frags" /\ pc'[r] # "read_frags" /\ DecodedBy(r) = {})
           => /\ pc'[r] = "returned"
              /\ result'[r] = Returned("no_valid", 200, 0)

\* C10 (the frame): no step taken while a run is before its write changes the
\* master log, the archives or the processed copies, or deletes a fragment.
NothingBeforeWriteStep ==
    (\E r \in Runs : pc[r] \in {"list", "read_master", "read_frags"})
    => /\ master' = master
       /\ archives' = archives
       /\ processed' = processed
       /\ \A n \in Names : frags[n] => frags'[n]

\* C10 (the record): a run that ended in the no-op outcome made no store
\* mutation.
NoOpLeavesStore ==
    \A r \in Runs :
        result[r].kind \in {"no_fragments", "no_valid"}
        => pc[r] = "returned" /\ ops[r] = <<>>

\* C10: no-op on nothing new.
NoOpOnNothingNew ==
    /\ []NoOpLeavesStore
    /\ [][NoOpOutcomeStep /\ NothingBeforeWriteStep]_vars

\* C10 witness: a run found only a directory marker or undecodable fragments
\* beside a master log that is over the threshold, and returned.
NoOpOnNothingNewWitness ==
    /\ result["A"].kind = "no_valid"
    /\ ShouldRotate(EntriesOf(master))

\* ------------------------------------------------------------ C11..C20
\* The step is a delivery of the message of fragment n.
DeliveredTo(n) ==
    /\ ack'.name = n
    /\ ack' # ack \/ created'[n] # created[n]

\* C11 (a repeated delivery): a delivery that finds the fragment, and whose
\* upload request the store answers, is acknowledged with 200 as a duplicate;
\* answered or not, it creates nothing and leaves the store as it was.
RedeliveryStep ==
    \A n \in Names :
        (frags[n] /\ DeliveredTo(n))
        => /\ ack'.kind # "error" => ack' = Ack(n, "duplicate", 200)
           /\ created' = created
           /\ store' = store

\* C11 (a first delivery): a delivery that does not find the fragment, and
\* whose upload request the store answers, creates it and nothing else.
FirstDeliveryStep ==
    \A n \in Names :
        (~frags[n] /\ DeliveredTo(n) /\ ack'.code = 200)
        => /\ ack' = Ack(n, "written", 200)
           /\ frags' = [frags EXCEPT ![n] = TRUE]
           /\ created' = [created EXCEPT ![n] = @ + 1]
           /\ <<bucket, master, body, dir_marker, processed, archives>>'
                  = <<bucket, master, body, dir_marker, processed, archives>>

\* C11 (one object): however often its message is delivered, a fragment that
\* consolidation has not retired was created once.
CreatedOnce ==
    \A n \in Names :
        /\ n \notin processed => created[n] <= 1
        /\ (frags[n] /\ body[n] # BadJson) => created[n] >= 1

RotatingWriteAcceptedStep ==
    \A r \in Runs :
        (/\ pc[r] = "write"
         /\ pc'[r] # "write"
         /\ logs_to_archive[r] # <<>>
         /\ faults'[r] = faults[r])
        => /\ pc'[r] = "archive"
           /\ result'[r].kind # "raise_conflict"
           /\ master'.kind = "list"
           /\ master'.entries = logs_for_main_file[r]

RotatingWriteAccepted == [][RotatingWriteAcceptedStep]_vars

\* The place of a store mutation in the protocol of a run.
OpRank(op) ==
    CASE op = "write" -> 1 [] op = "archive" -> 2 [] op = "copy" -> 3
      [] op = "delete" -> 4

\* C13 (the record): the store mutations of a run begin with the write of the
\* master log and come in the order write, archive, copies, deletes; a run
\* that ended in a propagated failure made none.
MutationsInOrder ==
    \A r \in Runs :
        /\ ops[r] # <<>> => ops[r][1] = Op("write", 0)
        /\ \A k \in 1..(Len(ops[r]) - 1) :
               /\ OpRank(ops[r][k].op) <= OpRank(ops[r][k + 1].op)
               /\ ops[r][k + 1].op # "write"
        /\ pc[r] = "raised" => ops[r] = <<>>

\* C13 (the steps): the master log changes only in the write step, an archive
\* is added only in the step after it, a processed copy appears only after
\* that, and a fragment is deleted only after the copies, all of them in a run
\* that has written the master log.
ProtocolOrderStep ==
    /\ master' # master => pc["A"] = "write" /\ pc'["A"] = "archive"
    /\ archives' # archives
       => pc["A"] = "archive" /\ pc'["A"] = "copy" /\ Did("A", "write") # {}
    /\ processed' # processed
       => pc["A"] = "copy" /\ Did("A", "write") # {} /\ Did("A", "delete") = {}
    /\ (\E n \in Names : frags[n] /\ ~frags'[n])
       => /\ pc["A"] = "copy"
          /\ Did("A", "write") # {}
          /\ Range(valid_fragment_blobs["A"]) = Did("A", "copy")

\* C13: protocol order within a run.
ProtocolOrder == []MutationsInOrder /\ [][ProtocolOrderStep]_vars

\* C13 witness: a run has written the master log, copied two fragments and
\* deleted them.
ProtocolOrderWitness ==
    /\ pc["A"] = "returned"
    /\ Len(ops["A"]) = 5
    /\ ops["A"][1].op = "write"
    /\ ops["A"][3].op = "copy"
    /\ ops["A"][5].op = "delete"

\* C14 (copy, then delete): a copy step adds the processed name of the
\* fragment it copies, the rest of the name unchanged, and an original is
\* deleted only in a step that finds the processed name of every fragment of
\* the retirement set, each copied by this run.
CopyThenDeleteStep ==
    \A r \in Runs :
        LET valid == valid_fragment_blobs[r]
        IN  /\ (pc[r] = "copy" /\ processed' # processed)
               => /\ i[r] \in 1..Len(valid)
                  /\ processed' = processed \cup {valid[i[r]]}
                  /\ frags' = frags
            /\ (pc[r] = "copy" /\ \E n \in Names : frags[n] /\ ~frags'[n])
               => /\ i[r] > Len(valid)
                  /\ Range(valid) \subseteq processed
                  /\ Did(r, "copy") = Range(valid)
                  /\ \A n \in Names : (frags[n] /\ ~frags'[n]) => n \in Range(valid)

\* C14 (a copy fails): the run ends there with the status of a completed run
\* and a processed count of 0, has deleted nothing, and every fragment of its
\* retirement set is still pending.
FailedCopyStep ==
    \A r \in Runs :
        (pc[r] = "copy" /\ Op("copy", 0) \in faults'[r])
        => /\ pc'[r] = "returned"
           /\ result'[r] = Returned("complete", 200, 0)
           /\ frags' = frags
           /\ \A n \in Range(valid_fragment_blobs[r]) : frags'[n]
           /\ Did(r, "delete") = {}
           /\ ops'[r] = ops[r]

\* C14 (the record): a run in which a copy failed has made no delete.
NoDeleteAfterFailedCopy ==
    \A r \in Runs :
        Op("copy", 0) \in faults[r]
        => /\ Did(r, "delete") = {}
           /\ pc[r] = "returned"
           /\ result[r] = Returned("complete", 200, 0)

\* C14: copy-then-delete.
CopyThenDelete ==
    /\ []NoDeleteAfterFailedCopy
    /\ [][CopyThenDeleteStep /\ FailedCopyStep]_vars

\* C14 witness: the first copy of a run was made and the second failed; both
\* fragments are pending and the run reported 0 processed.
CopyThenDeleteWitness ==
    /\ Op("copy", 0) \in faults["A"]
    /\ Cardinality(Did("A", "copy")) = 1
    /\ result["A"] = Returned("complete", 200, 0)
    /\ \A n \in Names : frags[n] /\ body[n] # BadJson
    /\ Cardinality(processed) = 1

\* The step is a step of run r.
RunStep(r) == pc'[r] # pc[r] \/ i'[r] # i[r]

\* C15 (the steps): a step of a run that has not reached its write changes no
\* object of the bucket and records no mutation.
NoMutationBeforeWriteStep ==
    \A r \in Runs :
        (pc[r] \in {"list", "read_master", "read_frags"} /\ RunStep(r))
        => /\ store' = store
           /\ ops'[r] = <<>>

\* C15 (the fatal read): a run whose read of the master log failed
\* unexpectedly ended there, in a propagated failure, without a mutation.
FatalReadLeavesStore ==
    \A r \in Runs :
        Op("read_master", 0) \in faults[r]
        => /\ pc[r] = "raised"
           /\ result[r] = Raised("raise_read")
           /\ ops[r] = <<>>

\* C15: no side effects before the write.
NoSideEffectsBeforeWrite ==
    /\ []FatalReadLeavesStore
    /\ [][NoMutationBeforeWriteStep]_vars

\* C15 witness: a run found pending fragments beside a master log with
\* entries, failed on the read of the log and left both.
NoSideEffectsBeforeWriteWitness ==
    /\ result["A"] = Raised("raise_read")
    /\ Op("read_master", 0) \in faults["A"]
    /\ EntriesOf(master) # <<>>
    /\ \E n \in Names : frags[n] /\ body[n] # BadJson
    /\ ops["A"] = <<>>

\* The master log is missing, unparseable or not a list.
Anomalous(m) == m.kind \in {"absent", "unparseable", "not_a_list"}

\* C16 (the read): a missing master log leaves the run with no old entries
\* and the generation "no object"; an unparseable one and one that is not a
\* list leave it with no old entries and the generation of the object read.
AnomalousReadStep ==
    \A r \in Runs :
        (pc[r] = "read_master" /\ pc'[r] = "read_frags" /\ Anomalous(master))
        => /\ all_logs'[r] = <<>>
           /\ generation'[r] = master.gen
           /\ (master.kind = "absent") <=> (generation'[r] = NoGeneration)

\* C16 (the write): the write of a run that read such a master log, when the
\* store does not fail, carries the generation read and is accepted, and the
\* master log then holds exactly the entries the run decoded, in ascending
\* timestamp order.
RecoveringWriteStep ==
    \A r \in Runs :
        (/\ pc[r] = "write"
         /\ RunStep(r)
         /\ Anomalous(master)
         /\ faults'[r] = {})
        => /\ generation[r] = master.gen
           /\ pc'[r] = "archive"
           /\ master'.kind = "list"
           /\ master'.gen # master.gen
           /\ DecodedBy(r) # {}
           /\ HoldsExactly(master'.entries, DecodedBy(r))
           /\ IsSortedByTimestamp(master'.entries)

\* C16 (the outcome): such a run, when the store does not fail, ends with the
\* status of a completed run that processed every fragment it decoded.
RecoveredRunStep ==
    \A r \in Runs :
        (/\ Ends(r)
         /\ pc[r] \in {"write", "archive", "copy"}
         /\ all_logs[r] = <<>>
         /\ faults'[r] = {})
        => /\ result'[r] =
                  Returned("complete", 200, Cardinality(DecodedBy(r)))
           /\ master'.entries = new_entries[r]

\* C16: master-log read anomalies are recovered as an empty log.
ReadAnomalyRecovered ==
    [][AnomalousReadStep /\ RecoveringWriteStep /\ RecoveredRunStep]_vars

\* C16 witness: a run replaced an unparseable master log of generation 1 by
\* the two entries it decoded, which were listed in the other order.
ReadAnomalyRecoveredWitness ==
    /\ result["A"] = Returned("complete", 200, 2)
    /\ faults["A"] = {}
    /\ master.gen = 2
    /\ Len(EntriesOf(master)) = 2
    /\ master.entries[1].id = 2
    /\ TimestampKey(master.entries[1]) < TimestampKey(master.entries[2])

\* C17 (fencing lets it through): a run that decoded a fragment whose entry is
\* in the master log it read, and whose write carries the generation the
\* master log still has, is not stopped: the write is accepted and the master
\* log holds the entry once more than before.
FencingAdmitsDuplicateStep ==
    \A r \in Runs : \A n \in Range(valid_fragment_blobs[r]) :
        (/\ pc[r] = "write"
         /\ RunStep(r)
         /\ Count(n, all_logs[r]) > 0
         /\ generation[r] = master.gen)
        => /\ pc'[r] = "archive"
           /\ master'.entries = all_logs[r] \o new_entries[r]
           /\ Count(n, master'.entries) = Count(n, EntriesOf(master)) + 1

FencingAdmitsDuplicate == [][FencingAdmitsDuplicateStep]_vars

\* C17 witness: starting without a master log, runs A and B overlapped, both
\* wrote the master log, and it holds twice the entry of a fragment that was
\* created once.
FencingAdmitsDuplicateWitness ==
    /\ master.gen = 2
    /\ Did("A", "write") # {}
    /\ Did("B", "write") # {}
    /\ \E n \in Names : created[n] = 1 /\ Count(n, EntriesOf(master)) = 2

\* The fragments that are pending beside run r and were not there when it
\* listed.
Late(r) == {n \in Names : frags[n] /\ n \notin Range(fragment_blobs[r])}

\* C18 (the retirement set): the fragments a run copies and deletes are among
\* those it decoded, which are among those it listed.
RetiresOnlyListed ==
    \A r \in Runs :
        /\ Range(valid_fragment_blobs[r]) \subseteq Range(fragment_blobs[r])
        /\ pc[r] \notin Inactive
           => Did(r, "copy") \cup Did(r, "delete")
                  \subseteq Range(valid_fragment_blobs[r])

\* C18 (the late fragment): a fragment that arrived after the listing of a run
\* is neither copied nor deleted in any step up to and including its last,
\* and its entry is not written to the master log.
LateFragmentKeptStep ==
    \A r \in Runs : \A n \in Late(r) :
        (pc[r] \notin Inactive \cup {"list"})
        => /\ frags'[n]
           /\ n \in processed' => n \in processed
           /\ Count(n, EntriesOf(master')) = Count(n, EntriesOf(master))
           /\ \A k \in 1..Len(ops'[r]) :
                  ops'[r][k].op \in {"copy", "delete"} => ops'[r][k].name # n

\* C18: fragments arriving during a run are not lost.
LateFragmentKept == []RetiresOnlyListed /\ [][LateFragmentKeptStep]_vars

\* C18 witness: a fragment arrived after a run had listed; the run has written
\* the master log and copied what it decoded, and the late fragment is
\* pending, uncopied and unmerged.
LateFragmentKeptWitness ==
    \E n \in Late("A") :
        /\ pc["A"] = "copy"
        /\ i["A"] > Len(valid_fragment_blobs["A"])
        /\ Did("A", "copy") = Range(valid_fragment_blobs["A"])
        /\ Did("A", "copy") # {}
        /\ body[n] # BadJson
        /\ n \notin processed
        /\ Count(n, EntriesOf(master)) = 0

\* Fragment n is merged and retired.
Retired(n) ==
    /\ ~frags[n]
    /\ n \in processed
    /\ \/ Holds(EntriesOf(master), n)
       \/ \E k \in 1..Len(archives) : Holds(archives[k], n)

\* C19: with runs triggered again and again on a store that does not fail,
\* every decodable pending fragment is eventually merged and retired.
Progress ==
    \A n \in Names : (frags[n] /\ body[n] # BadJson) ~> Retired(n)

\* How many entries of the master log and the archives come from the message
\* of fragment n.
EntriesFrom(n) ==
    Count(n, EntriesOf(master))
        + Cardinality({p \in (1..Len(archives)) \X (1..NumFrags * MaxCreations) :
                          p[2] <= Len(archives[p[1]]) /\ archives[p[1]][p[2]].id = n})

\* C20: with failure-free runs, one at a time, and deliveries repeated at any
\* point, no message has more than one entry in the master log and the
\* archives.
OneEntryPerMessage ==
    \A n \in Names : EntriesFrom(n) <= 1

====
